---- MODULE Spec2Model ----
(***************************************************************************)
(* chiprec: identification of an ARM Cortex-M device from a firmware dump. *)
(*                                                                         *)
(* The model follows src/chiprec.py: the __main__ loop over the firmware   *)
(* files, find_used_registers (outer scan and forward scan), list(regs),   *)
(* find_devices with find_devices_by_register and dict_intersection_merge, *)
(* and the report loop over matchs.items().                                *)
(*                                                                         *)
(* 32-bit values (literal-pool data, register addresses) do not fit the    *)
(* model checker's integers, so an address is a record [hi, lo] with       *)
(* value hi * 65536 + lo; additions carry from lo into hi and comparisons  *)
(* are lexicographic, which is exact.                                      *)
(***************************************************************************)
EXTENDS Integers, Sequences, FiniteSets, TLC

(***************************************************************************)
(* Bounds of the model.                                                    *)
(***************************************************************************)
MaxHalfwords == 5
MaxEvidence == 2
NumDevices == 2
MaxFiles == 2

(***************************************************************************)
(* Bit-level helpers.                                                      *)
(***************************************************************************)
Pow2(n) == 2 ^ n

\* x & mask, for a mask that keeps the bits from `lowbits` upwards
\* (0xF800: 11, 0xE000: 13, 0xFE00: 9).
MaskHigh(x, lowbits) == (x \div Pow2(lowbits)) * Pow2(lowbits)

\* (x >> shift) & (2^width - 1)
Field(x, shift, width) == (x \div Pow2(shift)) % Pow2(width)

Min(a, b) == IF a < b THEN a ELSE b

\* firmware[start : start + n], Python slice semantics: clamped to the
\* buffer, never an error.  Offsets are 0-based as in the source.
Slice(fw, start, n) ==
    LET lo == Min(start, Len(fw))
        up == Min(start + n, Len(fw))
    IN  [i \in 1..(up - lo) |-> fw[lo + i]]

RECURSIVE FromBytesLE(_)
\* int.from_bytes(bs, "little"); the empty sequence gives 0.
FromBytesLE(bs) ==
    IF Len(bs) = 0 THEN 0 ELSE bs[1] + 256 * FromBytesLE(Tail(bs))

\* int.from_bytes(firmware[start : start + n], "little")
ReadLE(fw, start, n) == FromBytesLE(Slice(fw, start, n))

\* The 4-byte little-endian read of the literal-pool slot, split in halves.
ReadWord(fw, start) ==
    [hi |-> ReadLE(fw, start + 2, 2), lo |-> ReadLE(fw, start, 2)]

AddrPlus(a, n) ==
    [hi |-> a.hi + ((a.lo + n) \div 65536), lo |-> (a.lo + n) % 65536]

AddrLT(a, b) == a.hi < b.hi \/ (a.hi = b.hi /\ a.lo < b.lo)
AddrLE(a, b) == a = b \/ AddrLT(a, b)

\* Faulty variant: the first window without its lower bound.
InPeripheralWindowNoLowerBound(addr) ==
    \/ addr.hi < 24576
    \/ (40960 <= addr.hi /\ addr.hi < 57344)

\* 0x40000000 <= addr < 0x60000000 or 0xA0000000 <= addr < 0xE0000000
InPeripheralWindow(addr) ==
    \/ (16384 <= addr.hi /\ addr.hi < 24576)
    \/ (40960 <= addr.hi /\ addr.hi < 57344)

(***************************************************************************)
(* Instruction recognition, as the masks of find_used_registers.           *)
(***************************************************************************)
IsLoadLiteral(instr) == MaskHigh(instr, 11) = 18432      \* & 0xF800 == 0x4800
IsLoadWord(instr)    == MaskHigh(instr, 11) = 26624      \* & 0xF800 == 0x6800
IsStoreWord(instr)   == MaskHigh(instr, 11) = 24576      \* & 0xF800 == 0x6000
IsStoreHalf(instr)   == MaskHigh(instr, 11) = 32768      \* & 0xF800 == 0x8000
IsStoreByte(instr)   == MaskHigh(instr, 11) = 28672      \* & 0xF800 == 0x7000
IsSubs(instr)        == MaskHigh(instr, 9) = 6656        \* & 0xFE00 == 0x1A00
IsMovs(instr)        == MaskHigh(instr, 11) = 8192       \* & 0xF800 == 0x2000

\* Faulty variant: the preceding halfword is never taken for a WidePrefix.
NeverWide(instr) == FALSE

\* (prev_instr & 0xE000) == 0xE000
IsWidePrefix(instr) == MaskHigh(instr, 13) = 57344

\* rb = (instr & 0xFF) << 2 ; data_offset = (fw_offset + rb) // 4 * 4 + 4
DataOffset(fw_offset, instr) ==
    ((fw_offset + (instr % 256) * 4) \div 4) * 4 + 4

(***************************************************************************)
(* Inputs.  A firmware image is a sequence of bytes; images are built from *)
(* halfwords (little-endian), optionally followed by one odd byte.         *)
(***************************************************************************)
SeqsUpTo(S, n) == UNION {[1..len -> S] : len \in 0..n}

\* The bytes of a sequence of halfwords, low byte first.
Bytes(hws) ==
    [i \in 1..(2 * Len(hws)) |->
        IF i % 2 = 1 THEN hws[(i + 1) \div 2] % 256 ELSE hws[i \div 2] \div 256]

\* 0x4000 unrecognized (and the high half of a peripheral address),
\* 0x4800 LDR r0,[pc,#0], 0x6800 LDR r0,[r0,#0], 0x2000 MOVS r0,#0,
\* 0x1A00 SUBS r0,r0,r0, 0xE000 first half of a 32-bit instruction.
HalfwordAlphabet == {16384, 18432, 26624, 8192, 6656, 57344}

TrailingBytes == {<<>>, <<64>>}

ScanFirmwares ==
    {Bytes(h) \o t : h \in SeqsUpTo(HalfwordAlphabet, MaxHalfwords),
                     t \in TrailingBytes}

\* Peripheral base used by the inputs: 0x40000000.
BaseAddr == [hi |-> 16384, lo |-> 0]

\* Evidence the matcher inputs are built from, each with the access
\* instruction that produces it from a register holding 0x40000000:
\* LDR r0,[r0,#0] ; STR r0,[r0,#4] ; STRH r0,[r0,#40].
EvidencePool ==
    { [addr |-> BaseAddr, kind |-> "read", instr |-> 26624],
      [addr |-> AddrPlus(BaseAddr, 4), kind |-> "write", instr |-> 24640],
      [addr |-> AddrPlus(BaseAddr, 40), kind |-> "write", instr |-> 34048] }

InjectiveSeqs(S, n) ==
    {s \in SeqsUpTo(S, n) : \A i, j \in 1..Len(s) : i # j => s[i] # s[j]}

RECURSIVE Blocks(_)
\* LDR r0,[pc,#0] ; access ; literal 0x40000000 -- one block per item.
Blocks(es) ==
    IF Len(es) = 0 THEN <<>>
    ELSE <<18432, es[1].instr, BaseAddr.lo, BaseAddr.hi>> \o Blocks(Tail(es))

\* Two padding halfwords keep every block word-aligned, so that the
\* literal of the block at offset o is read at o + 4.
FirmwareFor(es) == Bytes(<<0, 0>> \o Blocks(es))

MatchFirmwares == {FirmwareFor(es) : es \in InjectiveSeqs(EvidencePool, MaxEvidence)}

\* Register rows a device may have: two adjacent 32-bit registers and a
\* 512-bit register that covers 0x40000000 .. 0x4000003F.
RegisterShapes ==
    { [pname |-> "P", rname |-> "R0", addr |-> BaseAddr, size |-> 32],
      [pname |-> "P", rname |-> "R1", addr |-> AddrPlus(BaseAddr, 4), size |-> 32],
      [pname |-> "Q", rname |-> "W", addr |-> BaseAddr, size |-> 512] }

\* The sets of register rows a device may have.  A device with R0 and W has
\* two rows that contain 0x40000000 .. 0x40000003.
DeviceProfiles ==
    { {}, {"R0"}, {"R1"}, {"R0", "R1"}, {"W"}, {"R0", "W"} }

Devices == 1..NumDevices

Row(d, s) ==
    [dev |-> d, pname |-> s.pname, rname |-> s.rname, addr |-> s.addr, size |-> s.size]

\* The register table joined with peripheral, for every assignment of
\* register rows to devices.
Catalogs ==
    {UNION {{Row(d, s) : s \in {x \in RegisterShapes : x.rname \in f[d]}} : d \in Devices} :
        f \in [Devices -> DeviceProfiles]}

\* One device with one 32-bit register at 0x40006800, the address the
\* scan inputs can produce.
ScanCatalog ==
    {[dev |-> 1, pname |-> "P", rname |-> "R0",
      addr |-> [hi |-> 16384, lo |-> 26624], size |-> 32]}

MainCatalog ==
    {Row(1, s) : s \in {x \in RegisterShapes : x.rname = "R0"}}

\* STRB r0,[r0,#1] through a register holding 0x40000000.
StoreByteEvidence ==
    [addr |-> AddrPlus(BaseAddr, 1), kind |-> "write", instr |-> 28736]

\* The empty image, two images whose evidence the catalog matches, and one
\* whose evidence it does not.
MainFirmwares ==
    {<<>>, FirmwareFor(<<StoreByteEvidence>>)}
        \cup {FirmwareFor(<<e>>) : e \in {x \in EvidencePool : x.kind = "read"}}
        \cup {FirmwareFor(<<e>>) : e \in {x \in EvidencePool : x.instr = 34048}}

(***************************************************************************)
(* State.                                                                  *)
(***************************************************************************)
VARIABLES
    files,        \* args.filename: the images of the batch, in order
    catalog,      \* database.db: register JOIN peripheral
    fi,           \* position of the __main__ loop in files (1-based)
    pc,           \* "read", "outer", "inner", "list", "match", "exit", "crashed"
    firmware,     \* f.read()
    fw_offset,    \* outer loop variable of find_used_registers
    prev_instr,   \* as left by the last outer iteration that computed it
    rd,           \* destination register of the literal load being followed
    data,         \* the literal-pool word, [hi, lo]
    registers_containing_addr,
    fw_offset2,   \* forward-scan loop variable
    regs,         \* the evidence set
    order,        \* list(regs): the order in which the set is iterated
    k,            \* number of items of order find_devices has processed
    m,            \* result of the last find_devices_by_register
    matchs,       \* the running MatchState of find_devices
    outcome,      \* per processed image: "devices" or "AttributeError"
    adds,         \* history: every regs.add call of the current image
    scanned,      \* history: outer offsets that started a forward scan
    decoded,      \* history: offsets decoded as an instruction
    overwritten   \* history: rd, once redefined in the current forward scan

vars ==
    <<files, catalog, fi, pc, firmware, fw_offset, prev_instr, rd, data,
      registers_containing_addr, fw_offset2, regs, order, k, m, matchs,
      outcome, adds, scanned, decoded, overwritten>>

scanVars ==
    <<firmware, fw_offset, prev_instr, rd, data, registers_containing_addr,
      fw_offset2, regs, adds, scanned, decoded, overwritten>>

matchVars == <<order, k, m, matchs>>

\* matchs = None: nothing applied yet, every device is still a candidate.
None == [constrained |-> FALSE, hits |-> <<>>]
Some(d) == [constrained |-> TRUE, hits |-> d]

NoAddr == [hi |-> 0, lo |-> 0]

InitWith(fs, cat) ==
    /\ files = fs
    /\ catalog = cat
    /\ fi = 1
    /\ pc = "read"
    /\ firmware = <<>>
    /\ fw_offset = 0
    /\ prev_instr = 0
    /\ rd = 0
    /\ data = NoAddr
    /\ registers_containing_addr = {}
    /\ fw_offset2 = 0
    /\ regs = {}
    /\ order = <<>>
    /\ k = 0
    /\ m = <<>>
    /\ matchs = None
    /\ outcome = <<>>
    /\ adds = <<>>
    /\ scanned = {}
    /\ decoded = {}
    /\ overwritten = {}

(***************************************************************************)
(* __main__: firmware = f.read(); regs = find_used_registers(firmware)     *)
(***************************************************************************)
ReadFile ==
    /\ pc = "read"
    /\ firmware' = files[fi]
    /\ regs' = {}
    /\ fw_offset' = 2
    /\ adds' = <<>>
    /\ scanned' = {}
    /\ decoded' = {}
    /\ overwritten' = {}
    /\ pc' = "outer"
    /\ UNCHANGED <<files, catalog, fi, prev_instr, rd, data,
                   registers_containing_addr, fw_offset2, outcome>>
    /\ UNCHANGED matchVars

(***************************************************************************)
(* find_used_registers: one iteration of the outer loop.                   *)
(***************************************************************************)
\* Faulty variant: the outer scan advances by a word.
SkipWord(o) == o + 4

\* range(2, len(firmware), 2)
NextOuterOffset(o) == o + 2

OuterStep ==
    /\ pc = "outer"
    /\ fw_offset < Len(firmware)
    /\ LET instr == ReadLE(firmware, fw_offset, 2)
           prev  == ReadLE(firmware, fw_offset - 2, 2)
       IN  IF ~IsLoadLiteral(instr)
           THEN /\ fw_offset' = NextOuterOffset(fw_offset)
                /\ UNCHANGED <<pc, prev_instr, rd, data, registers_containing_addr,
                               fw_offset2, scanned, decoded, overwritten>>
           ELSE IF IsWidePrefix(prev)
           THEN /\ prev_instr' = prev
                /\ fw_offset' = NextOuterOffset(fw_offset)
                /\ UNCHANGED <<pc, rd, data, registers_containing_addr,
                               fw_offset2, scanned, decoded, overwritten>>
           ELSE /\ prev_instr' = prev
                /\ rd' = Field(instr, 8, 3)
                /\ data' = ReadWord(firmware, DataOffset(fw_offset, instr))
                /\ registers_containing_addr' = {Field(instr, 8, 3)}
                /\ fw_offset2' = fw_offset + 2
                /\ scanned' = scanned \cup {fw_offset}
                /\ decoded' = decoded \cup {fw_offset}
                /\ overwritten' = {}
                /\ pc' = "inner"
                /\ UNCHANGED fw_offset
    /\ UNCHANGED <<files, catalog, fi, firmware, regs, outcome, adds>>
    /\ UNCHANGED matchVars

\* The outer loop is exhausted: return regs.
ScanReturn ==
    /\ pc = "outer"
    /\ fw_offset >= Len(firmware)
    /\ pc' = "list"
    /\ UNCHANGED <<files, catalog, fi, outcome>>
    /\ UNCHANGED scanVars
    /\ UNCHANGED matchVars

(***************************************************************************)
(* find_used_registers: one iteration of the forward scan.                 *)
(***************************************************************************)
\* Faulty variant: an overwritten register stays tracked.
KeepTracking(tracked, r) == tracked

\* registers_containing_addr.remove(rd2), guarded by `rd2 in ...`
Remove(tracked, r) == tracked \ {r}

\* regs.add((addr, kind)) under the peripheral-window test
Access(addr, kind) ==
    IF InPeripheralWindow(addr) THEN {[addr |-> addr, kind |-> kind]} ELSE {}

\* The if/elif chain on instr2: the tracked registers afterwards, the item
\* handed to regs.add (none or one), and whether the chain ends in `break`.
InnerEffect(instr2, tracked, dat) ==
    LET rn2  == Field(instr2, 3, 3)
        imm5 == Field(instr2, 6, 5)
        keep == [tracked |-> tracked, add |-> {}, stop |-> FALSE]
        kill(r) == [tracked |-> IF r \in tracked THEN Remove(tracked, r) ELSE tracked,
                    add |-> {}, stop |-> FALSE]
        acc(scale, kind) ==
            IF rn2 \in tracked
            THEN [tracked |-> tracked,
                  add |-> Access(AddrPlus(dat, imm5 * scale), kind),
                  stop |-> FALSE]
            ELSE keep
    IN  IF IsLoadWord(instr2)
        THEN IF rn2 \in tracked THEN acc(4, "read") ELSE kill(Field(instr2, 0, 3))
        ELSE IF IsStoreWord(instr2) THEN acc(4, "write")
        ELSE IF IsStoreHalf(instr2) THEN acc(2, "write")
        ELSE IF IsStoreByte(instr2) THEN acc(1, "write")
        ELSE IF IsLoadLiteral(instr2) THEN kill(Field(instr2, 8, 3))
        ELSE IF IsSubs(instr2) THEN kill(Field(instr2, 0, 3))
        ELSE IF IsMovs(instr2) THEN kill(Field(instr2, 8, 3))
        ELSE [tracked |-> tracked, add |-> {}, stop |-> TRUE]

\* The register a MOVS, LDR [pc] or SUBS writes; no register otherwise.
Redefined(instr2) ==
    IF IsLoadLiteral(instr2) \/ IsMovs(instr2) THEN {Field(instr2, 8, 3)}
    ELSE IF IsSubs(instr2) THEN {Field(instr2, 0, 3)}
    ELSE {}

InnerStep ==
    /\ pc = "inner"
    /\ LET instr2 == ReadLE(firmware, fw_offset2, 2)
           eff    == InnerEffect(instr2, registers_containing_addr, data)
       IN  IF \/ fw_offset2 >= Len(firmware)
              \/ registers_containing_addr = {}
              \/ IsWidePrefix(prev_instr)
           THEN \* loop exhausted, "lost addr", or "don't handle Thumb-2"
                /\ pc' = "outer"
                /\ fw_offset' = NextOuterOffset(fw_offset)
                /\ UNCHANGED <<registers_containing_addr, fw_offset2, regs, adds,
                               decoded, overwritten>>
           ELSE /\ decoded' = decoded \cup {fw_offset2}
                /\ registers_containing_addr' = eff.tracked
                /\ regs' = regs \cup eff.add
                /\ adds' = adds \o [i \in 1..Cardinality(eff.add) |->
                                      [src |-> fw_offset, at |-> fw_offset2,
                                       item |-> CHOOSE x \in eff.add : TRUE]]
                /\ overwritten' = overwritten \cup (Redefined(instr2) \cap {rd})
                /\ IF eff.stop
                   THEN /\ pc' = "outer"
                        /\ fw_offset' = NextOuterOffset(fw_offset)
                        /\ UNCHANGED fw_offset2
                   ELSE /\ fw_offset2' = fw_offset2 + 2
                        /\ UNCHANGED <<pc, fw_offset>>
    /\ UNCHANGED <<files, catalog, fi, firmware, prev_instr, rd, data, outcome,
                   scanned>>
    /\ UNCHANGED matchVars

(***************************************************************************)
(* find_devices_by_register: the SQL query and the dict built from it.     *)
(***************************************************************************)
\* WHERE register_address <= ?1
\*   AND register_address + 32 > ?1
\*   AND register_address + register_size / 8 > ?1     (integer division)
QueryRows(cat, addr) ==
    {r \in cat : /\ AddrLE(r.addr, addr)
                 /\ AddrLT(addr, AddrPlus(r.addr, 32))
                 /\ AddrLT(addr, AddrPlus(r.addr, r.size \div 8))}

\* {dev_id: [attr + [access]] for dev_id, *attr in res.fetchall()}: one hit
\* record per device.  When several rows of a device match, the row that
\* comes last in the result wins, and the query fixes no order: any of the
\* device's rows.
HitMaps(cat, addr, access) ==
    LET rows == QueryRows(cat, addr)
        devs == {r.dev : r \in rows}
    IN  {[d \in devs |-> <<[pname |-> f[d].pname, rname |-> f[d].rname,
                            access |-> access]>>] :
            f \in {g \in [devs -> rows] : \A d \in devs : g[d].dev = d}}

(***************************************************************************)
(* dict_intersection_merge.  d1.copy() is shallow and `d1[key] += d2[key]` *)
(* extends the list in place, so the lists of the caller's d1 change too:  *)
(* the operator gives the returned dict and the caller's d1 afterwards.    *)
(***************************************************************************)
\* Faulty variant: keys missing from d2 are kept instead of popped.
MergeWithoutPop(d1, d2) ==
    IF ~d1.constrained
    THEN [result |-> Some(d2), d1After |-> d1]
    ELSE [result |-> Some([key \in DOMAIN d1.hits |->
                             IF key \in DOMAIN d2 THEN d1.hits[key] \o d2[key]
                             ELSE d1.hits[key]]),
          d1After |-> d1]

dict_intersection_merge(d1, d2) ==
    IF ~d1.constrained
    THEN [result |-> Some(d2), d1After |-> d1]
    ELSE [result |-> Some([key \in DOMAIN d1.hits \cap DOMAIN d2 |->
                             d1.hits[key] \o d2[key]]),
          d1After |-> Some([key \in DOMAIN d1.hits |->
                             IF key \in DOMAIN d2 THEN d1.hits[key] \o d2[key]
                             ELSE d1.hits[key]])]

(***************************************************************************)
(* find_devices: the body of the loop for one item, given the lookup       *)
(* result mm: the value of matchs afterwards.                              *)
(***************************************************************************)
\* Faulty variant: an empty intersection replaces the running state.
ApplyEvenIfEmpty(ms, mm) ==
    IF DOMAIN mm = {} THEN ms ELSE dict_intersection_merge(ms, mm).result

FindDevicesStep(ms, mm) ==
    IF DOMAIN mm = {}
    THEN ms                                      \* no device matches: skip
    ELSE LET r == dict_intersection_merge(ms, mm)
         IN  IF DOMAIN r.result.hits = {}
             THEN r.d1After                      \* empty intersection: skip
             ELSE r.result

\* regs is a hash-based set: list(regs) enumerates it in an order fixed by
\* the hashes of its (int, str) tuples, which vary from run to run (string
\* hashing is salted), not by insertion.
Orders(S) ==
    {s \in [1..Cardinality(S) -> S] : \A i, j \in DOMAIN s : i # j => s[i] # s[j]}

\* find_devices starts: matchs = None ; for addr, access in list(regs)
ListRegs ==
    /\ pc = "list"
    /\ \E o \in Orders(regs) : order' = o
    /\ k' = 0
    /\ m' = <<>>
    /\ matchs' = None
    /\ pc' = "match"
    /\ UNCHANGED <<files, catalog, fi, outcome>>
    /\ UNCHANGED scanVars

\* One iteration of the loop of find_devices.
MatchStep ==
    /\ pc = "match"
    /\ k < Len(order)
    /\ \E mm \in HitMaps(catalog, order[k + 1].addr, order[k + 1].kind) :
          /\ m' = mm
          /\ matchs' = FindDevicesStep(matchs, mm)
    /\ k' = k + 1
    /\ UNCHANGED <<files, catalog, fi, pc, outcome, order>>
    /\ UNCHANGED scanVars

(***************************************************************************)
(* __main__ after find_devices returns: `for dev_id, registers in          *)
(* matchs.items()`.  On None this raises AttributeError, which nothing     *)
(* catches: the process ends and the remaining files are not processed.    *)
(***************************************************************************)
Report ==
    /\ pc = "match"
    /\ k = Len(order)
    /\ IF matchs.constrained
       THEN /\ outcome' = Append(outcome, "devices")
            /\ fi' = fi + 1
            /\ pc' = IF fi + 1 > Len(files) THEN "exit" ELSE "read"
       ELSE /\ outcome' = Append(outcome, "AttributeError")
            /\ pc' = "crashed"
            /\ UNCHANGED fi
    /\ UNCHANGED <<files, catalog>>
    /\ UNCHANGED scanVars
    /\ UNCHANGED matchVars

Next ==
    \/ ReadFile
    \/ OuterStep
    \/ InnerStep
    \/ ScanReturn
    \/ ListRegs
    \/ MatchStep
    \/ Report

(***************************************************************************)
(* Specifications: the same program on three families of inputs.           *)
(***************************************************************************)
\* One image over the halfword alphabet: the scan in all its cases.
InitScan == \E fw \in ScanFirmwares : InitWith(<<fw>>, ScanCatalog)

\* One image that yields a chosen evidence sequence, any catalog.
InitMatch == \E fw \in MatchFirmwares, cat \in Catalogs : InitWith(<<fw>>, cat)

\* A batch of images.
InitMain ==
    \E n \in 1..MaxFiles : \E fs \in [1..n -> MainFirmwares] : InitWith(fs, MainCatalog)

SpecScan == InitScan /\ [][Next]_vars
SpecMatch == InitMatch /\ [][Next]_vars
SpecMain == InitMain /\ [][Next]_vars
Spec == SpecMain

(***************************************************************************)
(* Vocabulary of the properties.                                           *)
(***************************************************************************)
\* The halfword of the current image at byte offset o.
HalfwordAt(o) == ReadLE(firmware, o, 2)

\* Offsets of the complete halfwords of the current image.
HalfwordOffsets == {o \in 0..Len(firmware) : o % 2 = 0 /\ o + 2 <= Len(firmware)}

\* The halfword before o is the first half of a 32-bit instruction
\* (top three bits set).
AfterWidePrefix(o) == o >= 2 /\ HalfwordAt(o - 2) \div 8192 = 7

FindDevicesDone == pc = "match" /\ k = Len(order)

RECURSIVE FirstSeen(_, _)
\* The items of a log of regs.add calls, each at its first occurrence.
FirstSeen(log, seen) ==
    IF Len(log) = 0 THEN <<>>
    ELSE IF log[1].item \in seen THEN FirstSeen(Tail(log), seen)
    ELSE <<log[1].item>> \o FirstSeen(Tail(log), seen \cup {log[1].item})

Discovery == FirstSeen(adds, {})

\* Registers whose byte range [address, address + size/8) contains addr.
ExactRows(cat, addr) ==
    {r \in cat : AddrLE(r.addr, addr) /\ AddrLT(addr, AddrPlus(r.addr, r.size \div 8))}

Covering(addr) == {r.dev : r \in ExactRows(catalog, addr)}

\* Devices with register ranges covering every evidence item.
CoveringAll == {d \in {r.dev : r \in catalog} : \A e \in regs : d \in Covering(e.addr)}

Candidates(ms) == [constrained |-> ms.constrained, ids |-> DOMAIN ms.hits]

\* One of the dicts find_devices_by_register can return.
OneHitMap(cat, addr, access) ==
    LET rows == QueryRows(cat, addr)
    IN  [d \in {r.dev : r \in rows} |->
            LET r == CHOOSE x \in rows : x.dev = d
            IN  <<[pname |-> r.pname, rname |-> r.rname, access |-> access]>>]

RECURSIVE FindDevices(_, _, _)
\* find_devices on the items of `seq` in that order, from state ms.
FindDevices(cat, seq, ms) ==
    IF Len(seq) = 0 THEN ms
    ELSE FindDevices(cat, Tail(seq),
            FindDevicesStep(ms, OneHitMap(cat, seq[1].addr, seq[1].kind)))

\* The device sets of the lookups that return at least one entry.
Lookups == {{r.dev : r \in QueryRows(catalog, e.addr)} : e \in regs} \ {{}}

\* Some device is returned by every lookup that returns anything.
Compatible == \E d \in Devices : \A S \in Lookups : d \in S

(***************************************************************************)
(* C1.  An image whose matching ends unconstrained (find_devices returns   *)
(* None) is reported as "no candidate devices identified" and the batch    *)
(* goes on: processing never ends in an uncaught exception.                *)
(***************************************************************************)
C1_UnconstrainedIsReported ==
    /\ pc # "crashed"
    /\ \A i \in DOMAIN outcome : outcome[i] # "AttributeError"

(***************************************************************************)
(* C2.  find_devices applies the evidence items in the order in which      *)
(* they were first discovered by the scan.                                 *)
(***************************************************************************)
C2_IterationIsDiscoveryOrder == pc = "match" => order = Discovery

(***************************************************************************)
(* C3.  Each step of find_devices: an already narrowed candidate set only  *)
(* shrinks, and an item that is dropped (no catalog entry, or an empty     *)
(* intersection) leaves the MatchState, hit lists included, as it was.     *)
(***************************************************************************)
C3_Dropped ==
    \/ DOMAIN m' = {}
    \/ (matchs.constrained /\ DOMAIN matchs.hits \cap DOMAIN m' = {})

C3_MonotoneOrUnchanged ==
    [][(pc = "match" /\ k' = k + 1) =>
          /\ matchs.constrained =>
                /\ matchs'.constrained
                /\ DOMAIN matchs'.hits \subseteq DOMAIN matchs.hits
          /\ C3_Dropped => matchs' = matchs]_vars

\* An item was just dropped for an empty intersection with a narrowed state,
\* after an earlier item had been dropped for a catalog miss or applied.
C3_Witness ==
    /\ pc = "match"
    /\ k >= 2
    /\ matchs.constrained
    /\ DOMAIN m # {}
    /\ DOMAIN m \cap DOMAIN matchs.hits = {}

(***************************************************************************)
(* C4.  When exactly one device has register ranges covering every         *)
(* evidence item (and there is evidence), find_devices ends with exactly   *)
(* that device as its candidate set.                                       *)
(***************************************************************************)
C4_UniqueCoverIdentified ==
    (FindDevicesDone /\ regs # {} /\ Cardinality(CoveringAll) = 1)
        => Candidates(matchs) = [constrained |-> TRUE, ids |-> CoveringAll]

(***************************************************************************)
(* C5.  A halfword that follows a WidePrefix is never decoded, neither as  *)
(* the LoadLiteral that starts a forward scan nor inside a forward scan,   *)
(* and no evidence originates from it.                                     *)
(***************************************************************************)
C5_NoDecodeAfterWidePrefix ==
    /\ \A o \in decoded : ~AfterWidePrefix(o)
    /\ \A i \in DOMAIN adds : ~AfterWidePrefix(adds[i].at) /\ ~AfterWidePrefix(adds[i].src)

\* The scan is over; a LoadLiteral followed a WidePrefix, and an access
\* followed a WidePrefix behind a LoadLiteral that did start a forward scan.
C5_Witness ==
    /\ pc = "list"
    /\ \E o \in HalfwordOffsets : AfterWidePrefix(o) /\ IsLoadLiteral(HalfwordAt(o))
    /\ \E o \in HalfwordOffsets, s \in scanned :
          s < o /\ AfterWidePrefix(o) /\ IsLoadWord(HalfwordAt(o))

(***************************************************************************)
(* C6.  find_devices_by_register matches exactly the registers whose       *)
(* half-open byte range contains the address, whatever their bit-width.    *)
(***************************************************************************)
C6_LookupIsExactRange ==
    (pc = "match" /\ k >= 1) =>
        /\ QueryRows(catalog, order[k].addr) = ExactRows(catalog, order[k].addr)
        /\ DOMAIN m = Covering(order[k].addr)

(***************************************************************************)
(* C7.  As stated: every halfword offset from 0 on is examined, so a       *)
(* LoadLiteral at any offset, 0 included, that no WidePrefix precedes      *)
(* starts a forward scan.                                                  *)
(***************************************************************************)
C7_EveryOffsetFromZero ==
    pc = "list" =>
        \A o \in HalfwordOffsets :
            (IsLoadLiteral(HalfwordAt(o)) /\ ~AfterWidePrefix(o)) => o \in scanned

(***************************************************************************)
(* C7, amended.  Every halfword offset from 2 on is examined: a            *)
(* LoadLiteral at an offset o >= 2 that no WidePrefix precedes starts a    *)
(* forward scan; offset 0 is never examined.                               *)
(***************************************************************************)
C7_EveryOffsetFromTwo ==
    /\ 0 \notin scanned
    /\ pc = "list" =>
          \A o \in HalfwordOffsets :
              (o >= 2 /\ IsLoadLiteral(HalfwordAt(o)) /\ ~AfterWidePrefix(o))
                  => o \in scanned

\* The scan is over; the image starts with a LoadLiteral and has
\* LoadLiterals at offsets 2 and 4 as well.
C7_Witness ==
    /\ pc = "list"
    /\ Len(firmware) >= 6
    /\ \A o \in {0, 2, 4} : IsLoadLiteral(HalfwordAt(o))
    /\ {2, 4} \subseteq scanned

(***************************************************************************)
(* C8.  Scanning any image, empty, odd-length or truncated: every read of  *)
(* the scan, within or beyond the image, yields a number (nothing is       *)
(* raised), and a LoadLiteral whose literal-pool slot lies partly or       *)
(* wholly beyond the end of the image contributes no evidence.             *)
(***************************************************************************)
SlotOf(o) == DataOffset(o, HalfwordAt(o))

C8_TruncatedSlotNoEvidence ==
    /\ HalfwordAt(fw_offset) \in 0..65535 /\ HalfwordAt(fw_offset2) \in 0..65535
    /\ data.lo \in 0..65535 /\ data.hi \in 0..65535
    /\ \A i \in DOMAIN adds : SlotOf(adds[i].src) + 4 <= Len(firmware)

\* The scan of an odd-length image is over; a LoadLiteral had its slot
\* partly beyond the end and was followed by a load through its register.
C8_Witness ==
    /\ pc = "list"
    /\ Len(firmware) % 2 = 1
    /\ \E o \in scanned :
          /\ SlotOf(o) < Len(firmware)
          /\ SlotOf(o) + 4 > Len(firmware)
          /\ o + 2 \in decoded
          /\ IsLoadWord(HalfwordAt(o + 2))
          /\ Field(HalfwordAt(o + 2), 3, 3) = Field(HalfwordAt(o), 8, 3)

(***************************************************************************)
(* C9.  Within one forward scan, once the tracked base register has been   *)
(* redefined by a MOVS, a LDR [pc] or a SUBS, no later load or store       *)
(* through it adds evidence; and once no register is tracked the forward   *)
(* scan stops without decoding anything more.                              *)
(***************************************************************************)
C9_NoEvidenceAfterOverwrite ==
    [][pc = "inner" =>
          /\ adds' # adds => Field(HalfwordAt(fw_offset2), 3, 3) \notin overwritten
          /\ registers_containing_addr = {} =>
                (pc' = "outer" /\ adds' = adds /\ decoded' = decoded)]_vars

\* The tracked register, which holds a peripheral address, has just been
\* redefined, nothing is tracked any more, and a load through that register
\* lies ahead in the image.
C9_Witness ==
    /\ pc = "inner"
    /\ overwritten = {rd}
    /\ registers_containing_addr = {}
    /\ InPeripheralWindow(data)
    /\ \E o \in HalfwordOffsets :
          /\ o >= fw_offset2
          /\ IsLoadWord(HalfwordAt(o))
          /\ Field(HalfwordAt(o), 3, 3) = rd

(***************************************************************************)
(* C10.  As stated: the candidate set find_devices returns is the same     *)
(* for every order in which the evidence items are iterated.               *)
(***************************************************************************)
C10_OrderIndependent ==
    FindDevicesDone =>
        \A p \in Orders(regs) :
            Candidates(FindDevices(catalog, p, None)) = Candidates(matchs)

(***************************************************************************)
(* C10, amended.  When some device is returned by every lookup that        *)
(* returns anything (so no item is dropped for an empty intersection), the *)
(* candidate set is the same for every order of the evidence items.        *)
(***************************************************************************)
C10_OrderIndependentWhenCompatible ==
    (FindDevicesDone /\ Compatible) =>
        \A p \in Orders(regs) :
            Candidates(FindDevices(catalog, p, None)) = Candidates(matchs)

\* find_devices is over two items whose lookups differ and share a device.
C10_Witness ==
    /\ FindDevicesDone
    /\ Cardinality(Lookups) = 2
    /\ Compatible
    /\ matchs.constrained

====
